---- MODULE Spec2Model ----
(***************************************************************************)
(* A model of devicely's EverionReader (src/devicely/everion.py): the raw  *)
(* tagged tables, the sub-second timestamp reconstruction, the per-tag     *)
(* pivot, the outer join of the three streams with the accelerometer       *)
(* magnitude, and timeshift.                                               *)
(*                                                                         *)
(* Arithmetic is exact.  A raw time is an integer number of ticks, with    *)
(* Resolution ticks to the second (10**9 nanoseconds in the source); a     *)
(* reconstructed time is an integer number of 1/SubSecond ticks, so that   *)
(* every quotient (count - count_min) / count_range is an integer.  The    *)
(* rounding of the source's float64 seconds is not modelled.               *)
(***************************************************************************)
EXTENDS Integers, Sequences, FiniteSets, Bags, TLC

VARIABLES
  files,              \* the seven csv files found by _init_filelist, parsed
  selected,           \* signal_tags, feature_tags, sensor_tags of __init__
  phase,              \* "new" before __init__, then "ready" or "failed"
  error,              \* the exception of the last operation, or "none"
  aggregates, analytics_events, attributes_dailys, everion_events,
  features, sensors, signals,          \* the raw tables of the reader
  data                \* self.data, the combined table

vars == <<files, selected, phase, error, aggregates, analytics_events,
          attributes_dailys, everion_events, features, sensors, signals,
          data>>

---------------------------------------------------------------------------
(* Bounds of the model *)

\* rows per signals file
MaxRows == 3
\* rows per sensor_data file
MaxAccRows == 4
\* ticks per second
Resolution == 2
\* raw times stay within 0 .. MaxSecond seconds
MaxSecond == 2
\* acc_mag is kept to 1/AccScale
AccScale == 10

\* the values of the count column in the files
Counts == {0, 1, 3}

---------------------------------------------------------------------------
(* Small helpers *)

\* a missing cell (NaN, None)
NaN == << >>

Some(v) == <<v>>

Min(S) == CHOOSE x \in S : \A y \in S : x <= y

Max(S) == CHOOSE x \in S : \A y \in S : y <= x

RECURSIVE Gcd(_, _)
Gcd(a, b) == IF b = 0 THEN a ELSE Gcd(b, a % b)

RECURSIVE LcmUpTo(_)
LcmUpTo(n) == IF n <= 1 THEN 1 ELSE LET m == LcmUpTo(n - 1) IN (m * n) \div Gcd(m, n)

\* a common denominator of every count_range the files can produce
SubSecond == LcmUpTo(Max(Counts) - Min(Counts) + 1)

RECURSIVE SqrtBetween(_, _, _)
SqrtBetween(lo, hi, n) ==
  IF lo >= hi THEN lo
  ELSE LET mid == (lo + hi + 1) \div 2
       IN IF mid * mid <= n THEN SqrtBetween(mid, hi, n) ELSE SqrtBetween(lo, mid - 1, n)

\* the square root, rounded down
ISqrt(n) == SqrtBetween(0, n, n)

---------------------------------------------------------------------------
(* The tag catalogs *)

SIGNAL_TAGS ==
  [t \in {6, 7, 8, 9, 10, 11, 12, 13, 15, 19, 20, 21, 22, 23, 24, 25, 26, 66,
          68, 69, 70, 71, 72, 73, 74, 75, 76, 118, 119, 133, 134} |->
     CASE t = 6 -> "heart_rate"
       [] t = 7 -> "oxygen_saturation"
       [] t = 8 -> "perfusion_index"
       [] t = 9 -> "motion_activity"
       [] t = 10 -> "activity_classification"
       [] t = 11 -> "heart_rate_variability"
       [] t = 12 -> "respiration_rate"
       [] t = 13 -> "energy"
       [] t = 15 -> "ctemp"
       [] t = 19 -> "temperature_local"
       [] t = 20 -> "barometer_pressure"
       [] t = 21 -> "gsr_electrode"
       [] t = 22 -> "health_score"
       [] t = 23 -> "relax_stress_intensity_score"
       [] t = 24 -> "sleep_quality_index_score"
       [] t = 25 -> "training_effect_score"
       [] t = 26 -> "activity_score"
       [] t = 66 -> "richness_score"
       [] t = 68 -> "heart_rate_quality"
       [] t = 69 -> "oxygen_saturation_quality"
       [] t = 70 -> "blood_pulse_wave"
       [] t = 71 -> "number_of_steps"
       [] t = 72 -> "activity_classification_quality"
       [] t = 73 -> "energy_quality"
       [] t = 74 -> "heart_rate_variability_quality"
       [] t = 75 -> "respiration_rate_quality"
       [] t = 76 -> "ctemp_quality"
       [] t = 118 -> "temperature_object"
       [] t = 119 -> "temperature_barometer"
       [] t = 133 -> "perfusion_index_quality"
       [] t = 134 -> "blood_pulse_wave_quality"]

SENSOR_TAGS ==
  [t \in {80, 81, 82, 83, 84, 85, 86, 88, 89, 90, 91, 92} |->
     CASE t = 80 -> "led1_data"
       [] t = 81 -> "led2_data"
       [] t = 82 -> "led3_data"
       [] t = 83 -> "led4_data"
       [] t = 84 -> "accx_data"
       [] t = 85 -> "accy_data"
       [] t = 86 -> "accz_data"
       [] t = 88 -> "led2_current"
       [] t = 89 -> "led3_current"
       [] t = 90 -> "led4_current"
       [] t = 91 -> "current_offset"
       [] t = 92 -> "compressed_data"]

FEATURE_TAGS ==
  [t \in {14, 17, 18, 77, 78, 79} |->
     CASE t = 14 -> "inter_pulse_interval"
       [] t = 17 -> "pis"
       [] t = 18 -> "pid"
       [] t = 77 -> "inter_pulse_deviation"
       [] t = 78 -> "pis_quality"
       [] t = 79 -> "pid_quality"]

default_signal_tags == {6, 7, 11, 12, 15, 19, 20, 21, 118, 119}

default_sensor_tags == {80, 81, 82, 83, 84, 85, 86}

default_feature_tags == {14}

ACC_NAMES == {"accx_data", "accy_data", "accz_data"}

\* _tag_name: the three catalogs probed in turn
HasTagName(tag) ==
  tag \in DOMAIN SIGNAL_TAGS \cup DOMAIN SENSOR_TAGS \cup DOMAIN FEATURE_TAGS

TagName(tag) ==
  IF tag \in DOMAIN SIGNAL_TAGS THEN SIGNAL_TAGS[tag]
  ELSE IF tag \in DOMAIN SENSOR_TAGS THEN SENSOR_TAGS[tag]
  ELSE FEATURE_TAGS[tag]

QualityName(tag) ==
  IF tag = 14 THEN TagName(tag) \o "_deviation" ELSE TagName(tag) \o "_quality"

---------------------------------------------------------------------------
(* Raw tables.  A table is absent (None) or a bag of rows; a row is a      *)
(* record [time, tag, values, quality, count, streamType], values and      *)
(* quality being NaN or Some(v).  A table read from a file without any     *)
(* "value;quality" cell has no quality column, which the pivot treats as   *)
(* a quality that is NaN in every row.                                     *)

None == [present |-> FALSE, rows |-> EmptyBag]

Table(bag) == [present |-> TRUE, rows |-> bag]

\* DataFrame.drop_duplicates: the distinct rows
DropDuplicates(bag) == BagToSet(bag)

\* _read_file: no file, no table; else the distinct rows of the file, their
\* values parsed into a reading and a quality
ReadFile(file) ==
  IF ~file.present THEN None ELSE Table(SetToBag(DropDuplicates(file.rows)))

RowTimes(table) == {r.time : r \in BagToSet(table.rows)}

\* the rows of a bag with d added to the time of every row
ShiftRows(bag, d) ==
  [m \in {[r EXCEPT !.time = r.time + d] : r \in BagToSet(bag)} |->
     bag[[m EXCEPT !.time = m.time - d]]]

---------------------------------------------------------------------------
(* Timestamp reconstruction (lines 164-172) *)

\* the rows merged with one row: those of the same time
TimeGroup(rows, r) == {q \in rows : q.time = r.time}

CountMin(group) == Min({q.count : q \in group})

CountRangeByRows(group) == Cardinality(group)

CountRange(group) == Max({q.count : q \in group}) - Min({q.count : q \in group}) + 1

\* time + (count - count_min) / count_range, in 1/SubSecond ticks
ReconstructedTime(r, group) ==
  r.time * SubSecond
    + ((r.count - CountMin(group)) * Resolution * SubSecond) \div CountRange(group)

Reconstruct(rows) ==
  {[row |-> r, rtime |-> ReconstructedTime(r, TimeGroup(rows, r))] : r \in rows}

---------------------------------------------------------------------------
(* Wide frames: the columns, and a row of cells for every index time *)

EmptyFrame == [cols |-> {}, rows |-> [t \in {} |-> [c \in {} |-> NaN]]]

Index(frame) == DOMAIN frame.rows

Cell(frame, t, c) ==
  IF t \in Index(frame) /\ c \in frame.cols THEN frame.rows[t][c] ELSE NaN

ColumnsOverlap(left, right) == left.cols \cap right.cols # {}

InnerJoin(left, right) ==
  [cols |-> left.cols \cup right.cols,
   rows |-> [t \in IF left.cols = {} THEN Index(right)
                   ELSE Index(left) \cap Index(right) |->
               [c \in left.cols \cup right.cols |->
                  IF c \in left.cols THEN Cell(left, t, c) ELSE Cell(right, t, c)]]]

\* left.join(right, how='outer') of frames without a common column
OuterJoin(left, right) ==
  [cols |-> left.cols \cup right.cols,
   rows |-> [t \in Index(left) \cup Index(right) |->
               [c \in left.cols \cup right.cols |->
                  IF c \in left.cols THEN Cell(left, t, c) ELSE Cell(right, t, c)]]]

Ok(frame) == [err |-> "none", frame |-> frame]

Raise(e) == [err |-> e, frame |-> EmptyFrame]

---------------------------------------------------------------------------
(* The pivot of one stream (lines 157-187) *)

\* dropna(axis=1) keeps a column when none of its cells is missing
DropnaKeeps(cells) == NaN \notin cells

NeverZeroFilled(group) == FALSE

\* (sub_df[tag_name] == 0).all()
ZeroFilled(group) == \A x \in group : x.row.values = Some(0)

AnyIndex(group) == TRUE

\* set_index('time', verify_integrity=True) accepts the rows
IndexIsUnique(group) ==
  \A x, y \in group : x # y => x.rtime # y.rtime

SubFrame(group, tag, qualityKept) ==
  LET cols == {TagName(tag)} \cup (IF qualityKept THEN {QualityName(tag)} ELSE {})
      at(t) == CHOOSE x \in group : x.rtime = t
  IN [cols |-> cols,
      rows |-> [t \in {x.rtime : x \in group} |->
                  [c \in cols |->
                     IF c = TagName(tag) THEN at(t).row.values ELSE at(t).row.quality]]]

\* new_df.join(sub_df, how='outer')
AddSubFrame(new_df, sub_df) ==
  IF ColumnsOverlap(new_df, sub_df) THEN Raise("ColumnsOverlap")
  ELSE Ok(OuterJoin(new_df, sub_df))

\* the body of the loop over df.groupby('tag'), on the rows of one tag
PivotGroup(group, tag, new_df) ==
  IF ~HasTagName(tag) THEN Raise("KeyError")
  ELSE IF ~DropnaKeeps({x.row.values : x \in group}) THEN Raise("KeyError")
  ELSE IF ZeroFilled(group) THEN Ok(new_df)
  ELSE IF ~IndexIsUnique(group) THEN Raise("DuplicateKeys")
  ELSE AddSubFrame(new_df,
                   SubFrame(group, tag, DropnaKeeps({x.row.quality : x \in group})))

PivotStep(recon, tag, new_df) ==
  PivotGroup({x \in recon : x.row.tag = tag}, tag, new_df)

RECURSIVE PivotTags(_, _, _)
\* the loop goes on unless the step raised
PivotRest(recon, tags, step) ==
  IF step.err # "none" THEN step ELSE PivotTags(recon, tags, step.frame)

\* the loop over the tags, in ascending order
PivotTags(recon, tags, new_df) ==
  IF tags = {} THEN Ok(new_df)
  ELSE PivotRest(recon, tags \ {Min(tags)}, PivotStep(recon, Min(tags), new_df))

\* the rows the pivot works on: distinct, of a selected tag
Retained(df, selected_tags) ==
  {r \in DropDuplicates(df.rows) : r.tag \in selected_tags}

PivotAll(recon) == PivotTags(recon, {x.row.tag : x \in recon}, EmptyFrame)

\* _convert_single_dataframe
ConvertSingleDataframe(df, selected_tags) ==
  IF ~df.present THEN Ok(EmptyFrame)
  ELSE PivotAll(Reconstruct(Retained(df, selected_tags)))

---------------------------------------------------------------------------
(* The combined table (lines 142-155) *)

Square(v) == v[1] * v[1]

NormL1(x, y, z) ==
  IF NaN \in {x, y, z} THEN NaN
  ELSE Some(AccScale * ((IF x[1] < 0 THEN -x[1] ELSE x[1])
                        + (IF y[1] < 0 THEN -y[1] ELSE y[1])
                        + (IF z[1] < 0 THEN -z[1] ELSE z[1])))

\* np.linalg.norm of one row, in 1/AccScale, rounded down
Norm(x, y, z) ==
  IF NaN \in {x, y, z} THEN NaN
  ELSE Some(ISqrt((Square(x) + Square(y) + Square(z)) * AccScale * AccScale))

WithAccMag(frame) ==
  IF ~(ACC_NAMES \subseteq frame.cols) THEN frame
  ELSE [cols |-> frame.cols \cup {"acc_mag"},
        rows |-> [t \in Index(frame) |->
                    [c \in frame.cols \cup {"acc_mag"} |->
                       IF c = "acc_mag"
                       THEN Norm(frame.rows[t]["accx_data"], frame.rows[t]["accy_data"],
                                 frame.rows[t]["accz_data"])
                       ELSE frame.rows[t][c]]]]

RECURSIVE JoinAll(_, _)
JoinAll(frames, acc) ==
  IF frames = << >> THEN Ok(acc)
  ELSE IF ColumnsOverlap(acc, Head(frames)) THEN Raise("ColumnsOverlap")
  ELSE JoinAll(Tail(frames), OuterJoin(acc, Head(frames)))

AddAccMag(joined) ==
  IF joined.err # "none" THEN joined ELSE Ok(WithAccMag(joined.frame))

\* lines 149-155, once the three pivots have returned
JoinStreams(s, f, x) ==
  IF s.err # "none" THEN s
  ELSE IF f.err # "none" THEN f
  ELSE IF x.err # "none" THEN x
  ELSE AddAccMag(JoinAll(<<s.frame, f.frame, x.frame>>, EmptyFrame))

\* _join, on the three tables it reads
Join(sig, feat, sens, sel) ==
  JoinStreams(ConvertSingleDataframe(sig, sel.signal),
              ConvertSingleDataframe(feat, sel.feature),
              ConvertSingleDataframe(sens, sel.sensor))

---------------------------------------------------------------------------
(* timeshift (lines 234-248) on one raw table *)

ShiftBySeconds(table, d) ==
  IF ~table.present THEN table
  ELSE [table EXCEPT !.rows = ShiftRows(table.rows, d * Resolution)]

\* df['time'] += shift
ShiftByDelta(table, d) ==
  IF ~table.present THEN table ELSE [table EXCEPT !.rows = ShiftRows(table.rows, d)]

ShiftToAnchorAbsolute(table, anchor) ==
  IF ~table.present \/ RowTimes(table) = {} THEN table
  ELSE [table EXCEPT !.rows = ShiftRows(table.rows, anchor)]

\* df['time'] = shift + (df['time'] - df['time'].min())
ShiftToAnchor(table, anchor) ==
  IF ~table.present \/ RowTimes(table) = {} THEN table
  ELSE [table EXCEPT !.rows = ShiftRows(table.rows, anchor - Min(RowTimes(table)))]

---------------------------------------------------------------------------
(* The reader *)

MaxTick == MaxSecond * Resolution

Ticks == 0 .. MaxTick

\* _raw_dataframes, as the values of the seven attributes
RawDataframes ==
  <<aggregates, analytics_events, attributes_dailys, everion_events,
    features, sensors, signals>>

InWindow(table) == RowTimes(table) \subseteq Ticks

\* the tags __init__ accepts
ValidSelection(sel) ==
  /\ sel.signal \subseteq DOMAIN SIGNAL_TAGS
  /\ sel.feature \subseteq DOMAIN FEATURE_TAGS
  /\ sel.sensor \subseteq DOMAIN SENSOR_TAGS

Fresh ==
  /\ phase = "new"
  /\ error = "none"
  /\ aggregates = None /\ analytics_events = None /\ attributes_dailys = None
  /\ everion_events = None /\ features = None /\ sensors = None /\ signals = None
  /\ data = EmptyFrame

\* self.data is replaced unless _join raised
Assign(j) ==
  /\ error' = j.err
  /\ data' = IF j.err = "none" THEN j.frame ELSE data

\* self._join(), on the raw tables as the operation leaves them
Rejoin == Assign(Join(signals', features', sensors', selected))

\* __init__: the tags are validated, the files read, the streams joined
Construct ==
  /\ phase = "new"
  /\ UNCHANGED <<files, selected>>
  /\ IF ~ValidSelection(selected)
     THEN /\ phase' = "failed"
          /\ error' = "KeyError"
          /\ UNCHANGED <<aggregates, analytics_events, attributes_dailys,
                         everion_events, features, sensors, signals, data>>
     ELSE /\ aggregates' = ReadFile(files.aggregates)
          /\ analytics_events' = ReadFile(files.analytics_events)
          /\ attributes_dailys' = ReadFile(files.attributes_dailys)
          /\ everion_events' = ReadFile(files.everion_events)
          /\ features' = ReadFile(files.features)
          /\ sensors' = ReadFile(files.sensor_data)
          /\ signals' = ReadFile(files.signals)
          /\ Rejoin
          /\ phase' = IF error' = "none" THEN "ready" ELSE "failed"

\* timeshift(pd.Timedelta)
ShiftAllByDelta(d) ==
  /\ \A i \in 1 .. Len(RawDataframes) : InWindow(ShiftByDelta(RawDataframes[i], d))
  /\ aggregates' = ShiftByDelta(aggregates, d)
  /\ analytics_events' = ShiftByDelta(analytics_events, d)
  /\ attributes_dailys' = ShiftByDelta(attributes_dailys, d)
  /\ everion_events' = ShiftByDelta(everion_events, d)
  /\ features' = ShiftByDelta(features, d)
  /\ sensors' = ShiftByDelta(sensors, d)
  /\ signals' = ShiftByDelta(signals, d)
  /\ Rejoin

TimeshiftDelta(d) ==
  /\ phase = "ready"
  /\ ShiftAllByDelta(d)
  /\ UNCHANGED <<files, selected, phase>>

\* timeshift('random'): a whole number of seconds back (30 to 730 days in the
\* source, 1 to MaxSecond seconds here), then timeshift of that duration
TimeshiftRandom(seconds) ==
  /\ phase = "ready"
  /\ ShiftAllByDelta(-(seconds * Resolution))
  /\ UNCHANGED <<files, selected, phase>>

\* timeshift(pd.Timestamp)
TimeshiftAnchor(anchor) ==
  /\ phase = "ready"
  /\ \A i \in 1 .. Len(RawDataframes) : InWindow(ShiftToAnchor(RawDataframes[i], anchor))
  /\ aggregates' = ShiftToAnchor(aggregates, anchor)
  /\ analytics_events' = ShiftToAnchor(analytics_events, anchor)
  /\ attributes_dailys' = ShiftToAnchor(attributes_dailys, anchor)
  /\ everion_events' = ShiftToAnchor(everion_events, anchor)
  /\ features' = ShiftToAnchor(features, anchor)
  /\ sensors' = ShiftToAnchor(sensors, anchor)
  /\ signals' = ShiftToAnchor(signals, anchor)
  /\ Rejoin
  /\ UNCHANGED <<files, selected, phase>>

Next ==
  \/ Construct
  \/ \E d \in -MaxTick .. MaxTick : TimeshiftDelta(d)
  \/ \E seconds \in 1 .. MaxSecond : TimeshiftRandom(seconds)
  \/ \E anchor \in Ticks : TimeshiftAnchor(anchor)

---------------------------------------------------------------------------
(* The files and selections the reader is constructed on *)

Range(s) == {s[i] : i \in DOMAIN s}

BagOfSeq(s) == [r \in Range(s) |-> Cardinality({i \in DOMAIN s : s[i] = r})]

\* the bags of at most n rows of dom
BagsOver(dom, n) == {BagOfSeq(s) : s \in UNION {[1 .. k -> dom] : k \in 0 .. n}}

RowSet(times, tags, values, qualities, counts) ==
  [time : times, tag : tags, values : values, quality : qualities,
   count : counts, streamType : {"5"}]

NoFile == [present |-> FALSE, rows |-> EmptyBag]

NoFiles ==
  [aggregates |-> NoFile, analytics_events |-> NoFile, attributes_dailys |-> NoFile,
   everion_events |-> NoFile, features |-> NoFile, sensor_data |-> NoFile,
   signals |-> NoFile]

Defaults ==
  [signal |-> default_signal_tags, feature |-> default_feature_tags,
   sensor |-> default_sensor_tags]

\* one signals file of two tags, counts that leave gaps, any selection of the two
ReconRows == RowSet({0, Resolution}, {6, 7}, {Some(1)}, {NaN}, Counts)

InitRecon ==
  /\ Fresh
  /\ \E bag \in BagsOver(ReconRows, MaxRows) :
       files = [NoFiles EXCEPT !.signals = Table(bag)]
  /\ \E sig \in SUBSET {6, 7} : selected = [Defaults EXCEPT !.signal = sig]

\* one signals file of a tag and the tag of its quality: zero and missing
\* readings, missing qualities, repeated rows and repeated counts
PivotRows ==
  RowSet({0}, {6, 68}, {Some(0), Some(1)}, {NaN, Some(1)}, {0, 1})
    \cup RowSet({0}, {6}, {NaN}, {NaN}, {0})

InitPivot ==
  /\ Fresh
  /\ \E bag \in BagsOver(PivotRows, MaxRows) :
       files = [NoFiles EXCEPT !.signals = Table(bag)]
  /\ selected = [Defaults EXCEPT !.signal = {6, 68}]

\* the bags of at most n rows of dom, no row repeated
SetsOver(dom, n) == {SetToBag(rows) : rows \in {S \in SUBSET dom : Cardinality(S) <= n}}

\* the three streams and one of the other tables, with the default selection:
\* the accelerometer axes, one of them zero in some rows or in all
AccRows ==
  RowSet({0}, {84}, {Some(3)}, {NaN}, {0})
    \cup RowSet({0}, {85}, {Some(4)}, {NaN}, {0, 1})
    \cup RowSet({0}, {86}, {Some(0), Some(2)}, {NaN}, {0, 1})

SignalFiles ==
  {Table(SetToBag(rows)) :
     rows \in {RowSet({0}, {6}, {Some(1)}, {NaN}, {0}),
               RowSet({0, Resolution}, {6}, {Some(1)}, {NaN}, {1})}}

FeatureFiles ==
  {NoFile, Table(SetToBag(RowSet({Resolution}, {14}, {Some(7)}, {Some(2)}, {0})))}

OtherFiles ==
  {NoFile, Table(SetToBag(RowSet({0, Resolution}, {0}, {Some(1)}, {NaN}, {0})))}

InitStreams ==
  /\ Fresh
  /\ \E bag \in SetsOver(AccRows, MaxAccRows) :
     \E sig \in SignalFiles, feat \in FeatureFiles, agg \in OtherFiles :
       files = [NoFiles EXCEPT !.sensor_data = Table(bag), !.signals = sig,
                               !.features = feat, !.aggregates = agg]
  /\ selected = Defaults

\* a tag outside the catalogs
InitBadTag ==
  /\ Fresh
  /\ files = NoFiles
  /\ selected = [Defaults EXCEPT !.sensor = {6}]

Init == InitRecon \/ InitPivot \/ InitStreams \/ InitBadTag

Spec == Init /\ [][Next]_vars

SpecRecon == InitRecon /\ [][Next]_vars

SpecPivot == InitPivot /\ [][Next]_vars

SpecStreams == InitStreams /\ [][Next]_vars

---------------------------------------------------------------------------
(* Properties of the timestamp reconstruction *)

\* the rows the pivot of the signals stream reconstructs
SignalRows == Retained(signals, selected.signal)

SameSecond(rows, r) == {q \in rows : q.time = r.time}

LowestCount(rows) == CHOOSE c \in {q.count : q \in rows} : \A q \in rows : c <= q.count

HighestCount(rows) == CHOOSE c \in {q.count : q \in rows} : \A q \in rows : q.count <= c

\* the reconstructed time the pivot gives a row of the signals stream
SignalTime(r) ==
  (CHOOSE x \in Reconstruct(SignalRows) : x.row = r).rtime

\* C1: in a group of rows of one second t, with lowest count c_0 and highest
\* count c_last, the row of count c is moved to t + (c - c_0)/(c_last - c_0 + 1),
\* which lies in [t, t+1), grows strictly with the count, and is t itself in a
\* group of one row; the index of the pivoted table is made of these times.
C1_ReconstructionSpreadsEvenly ==
  signals.present =>
    /\ \A r \in SignalRows :
         LET group == SameSecond(SignalRows, r)
             c0 == LowestCount(group)
             span == HighestCount(group) - c0 + 1
         IN /\ (SignalTime(r) - r.time * SubSecond) * span
                 = (r.count - c0) * Resolution * SubSecond
            /\ r.time * SubSecond <= SignalTime(r)
            /\ SignalTime(r) < (r.time + Resolution) * SubSecond
            /\ Cardinality(group) = 1 => SignalTime(r) = r.time * SubSecond
            /\ \A q \in group : q.count < r.count => SignalTime(q) < SignalTime(r)
    /\ phase = "ready" => Index(data) = {SignalTime(r) : r \in SignalRows}

\* C1 witness: a constructed reader whose signals hold a second with two
\* counts that leave a gap, and a second with a single row
C1_Witness ==
  /\ phase = "ready"
  /\ \E r, q \in SignalRows :
       /\ r.time = q.time /\ r.time % Resolution = 0 /\ q.count > r.count + 1
       /\ SignalTime(q) \in Index(data)
       /\ SignalTime(q) > q.time * SubSecond
  /\ \E r \in SignalRows : Cardinality(SameSecond(SignalRows, r)) = 1

\* C9: the reconstructed time of a retained row is the one the reconstruction
\* of the whole raw table gives it, and so the same under every selection of
\* tags that retains the row
C9_TimeIndependentOfSelection ==
  signals.present =>
    \A r \in SignalRows :
      /\ SignalTime(r)
           = (CHOOSE x \in Reconstruct(DropDuplicates(signals.rows)) : x.row = r).rtime
      /\ \A other \in SUBSET {q.tag : q \in BagToSet(signals.rows)} :
           r.tag \in other =>
             SignalTime(r)
               = (CHOOSE x \in Reconstruct(Retained(signals, other)) : x.row = r).rtime

---------------------------------------------------------------------------
(* Properties of the pivot of one stream *)

\* the tags whose rows the pivot of the signals stream groups
SignalTags == {r.tag : r \in SignalRows}

RowsOfTag(tag) == {r \in SignalRows : r.tag = tag}

AllZero(tag) == \A r \in RowsOfTag(tag) : r.values = Some(0)

\* the rows of the signals file, a row that the file repeats counted as often
FileRowsOfTag(tag) ==
  {p \in BagToSet(files.signals.rows) \X (1 .. MaxRows) :
     /\ p[1].tag = tag
     /\ p[1].tag \in selected.signal
     /\ p[2] <= files.signals.rows[p[1]]}

\* the reconstructed time of a row of the signals file
FileTime(r) ==
  (CHOOSE x \in Reconstruct(Retained(files.signals, selected.signal)) : x.row = r).rtime

\* C2, as claimed: a reader is never constructed on a signals file in which
\* two rows of a selected tag get the same reconstructed time
C2_DuplicateTimeAlwaysFails ==
  phase = "ready" =>
    \A tag \in selected.signal :
      \A p, q \in FileRowsOfTag(tag) : p # q => FileTime(p[1]) # FileTime(q[1])

\* C2, amended: two rows of a selected tag that differ in some column and get
\* the same reconstructed time make the pivot fail, unless every reading of
\* the tag is zero; the table of a constructed reader holds the reading of
\* every row of every tag that is not zero-filled
C2_DistinctRowsDuplicateTimeFails ==
  phase = "ready" =>
    \A tag \in SignalTags :
      ~AllZero(tag) =>
        /\ \A r, q \in RowsOfTag(tag) : r # q => SignalTime(r) # SignalTime(q)
        /\ \A r \in RowsOfTag(tag) : Cell(data, SignalTime(r), TagName(tag)) = r.values

\* C2 witness: the construction failed on two rows of one tag, one second and
\* one count that differ in their reading
C2_Witness ==
  /\ phase = "failed"
  /\ error = "DuplicateKeys"
  /\ \E r, q \in RowsOfTag(6) :
       /\ r.values # q.values
       /\ SignalTime(r) = SignalTime(q)

\* the columns the pivot makes of the rows of a tag
GeneratedColumns(tag) ==
  IF AllZero(tag) \/ \E r \in RowsOfTag(tag) : r.values = NaN THEN {}
  ELSE {TagName(tag)}
         \cup (IF \A r \in RowsOfTag(tag) : r.quality # NaN THEN {QualityName(tag)} ELSE {})

\* the cell a row of a tag puts in a column
Reading(r, c) == IF c = TagName(r.tag) THEN r.values ELSE r.quality

\* C7: a tag whose readings are all zero gives the table no value column and
\* no quality column (a column of either name is made of the rows of another
\* tag), and a stream whose tags are all zero-filled gives the empty table,
\* without an error
C7_ZeroFilledTagDropped ==
  /\ phase = "ready" =>
       \A tag \in SignalTags :
         AllZero(tag) =>
           \A c \in {TagName(tag), QualityName(tag)} \cap data.cols :
             \E other \in SignalTags \ {tag} :
               /\ c \in GeneratedColumns(other)
               /\ \A t \in Index(data) :
                    Cell(data, t, c) # NaN =>
                      \E r \in RowsOfTag(other) :
                        SignalTime(r) = t /\ Reading(r, c) = Cell(data, t, c)
  /\ (phase # "new" /\ \A tag \in SignalTags : AllZero(tag)) =>
       phase = "ready" /\ data = EmptyFrame

\* C7 witness: a zero-filled tag with a quality beside a tag that is kept
C7_Witness ==
  /\ phase = "ready"
  /\ RowsOfTag(6) # {} /\ AllZero(6)
  /\ \E r \in RowsOfTag(6) : r.quality # NaN
  /\ \E r \in RowsOfTag(68) : r.values # Some(0)
  /\ data.cols = {"heart_rate_quality"}

\* C8: the quality column of a tag that is kept stays in the table when some
\* row of the tag has a quality, and a reading missing in some rows of a tag
\* does not make the pivot fail
C8_PartlyMissingColumnKept ==
  /\ phase = "ready" =>
       \A tag \in SignalTags :
         (~AllZero(tag) /\ \E r \in RowsOfTag(tag) : r.quality # NaN) =>
           QualityName(tag) \in data.cols
  /\ (\E tag \in SignalTags : \E r, q \in RowsOfTag(tag) : r.values = NaN /\ q.values # NaN) =>
       error # "KeyError"

\* C10: the columns made of the selected tags have pairwise distinct names,
\* and no join fails on a column it already has
C10_NoColumnNameCollision ==
  phase # "new" =>
    /\ error # "ColumnsOverlap"
    /\ \A a, b \in SignalTags :
         a # b => GeneratedColumns(a) \cap GeneratedColumns(b) = {}

---------------------------------------------------------------------------
(* Properties of the combined table *)

SignalFrame == ConvertSingleDataframe(signals, selected.signal).frame

FeatureFrame == ConvertSingleDataframe(features, selected.feature).frame

SensorFrame == ConvertSingleDataframe(sensors, selected.sensor).frame

StreamFrames == <<SignalFrame, FeatureFrame, SensorFrame>>

\* the streams that have a row at a time
StreamsAt(t) == {i \in 1 .. 3 : t \in Index(StreamFrames[i])}

\* the columns of the combined table that come from a stream
ColumnsFrom(i) ==
  StreamFrames[i].cols \cup (IF i = 3 THEN data.cols \cap {"acc_mag"} ELSE {})

\* C3: the index of the combined table is the union of the indices of the
\* three pivoted streams, its columns are theirs, a cell of a stream's column
\* is the stream's cell, and at a time that only one stream has, the columns
\* of the other two streams are missing
C3_OuterJoinPreservesTimestamps ==
  phase = "ready" =>
    /\ Index(data) = Index(SignalFrame) \cup Index(FeatureFrame) \cup Index(SensorFrame)
    /\ \A i \in 1 .. 3 : StreamFrames[i].cols \subseteq data.cols
    /\ \A t \in Index(data) :
         \A i \in 1 .. 3 :
           /\ \A c \in StreamFrames[i].cols :
                Cell(data, t, c) = Cell(StreamFrames[i], t, c)
           /\ StreamsAt(t) = {i} =>
                \A k \in (1 .. 3) \ {i} : \A c \in ColumnsFrom(k) : data.rows[t][c] = NaN

\* C3 witness: three streams with rows, a time that only one of them has and
\* a time that two of them have
C3_Witness ==
  /\ phase = "ready"
  /\ \A i \in 1 .. 3 : StreamFrames[i].cols # {}
  /\ \E t \in Index(data) : Cardinality(StreamsAt(t)) = 1
  /\ \E t \in Index(data) : Cardinality(StreamsAt(t)) >= 2

\* the cells of the accelerometer axes at a time of the combined table
Axes(t) ==
  <<Cell(data, t, "accx_data"), Cell(data, t, "accy_data"), Cell(data, t, "accz_data")>>

SumOfSquares(a) == a[1][1] * a[1][1] + a[2][1] * a[2][1] + a[3][1] * a[3][1]

\* the sensor rows that put a reading of one axis at a time of the table
AxisReadingAt(tag, value, t) ==
  \E x \in Reconstruct(Retained(sensors, selected.sensor)) :
    x.row.tag = tag /\ x.row.values = Some(value) /\ x.rtime = t

\* C6, as claimed: where the sensor stream reads 3, 4 and 0 on the three axes
\* at one time, the combined table has acc_mag = 5 there
C6_MagnitudeOfThreeFourZero ==
  phase = "ready" =>
    \A t \in Index(data) :
      (AxisReadingAt(84, 3, t) /\ AxisReadingAt(85, 4, t) /\ AxisReadingAt(86, 0, t)) =>
        /\ "acc_mag" \in data.cols
        /\ data.rows[t]["acc_mag"] = Some(5 * AccScale)

\* C6, amended: the table has acc_mag exactly when it has the columns of the
\* three axes; acc_mag is then the root of the sum of their squares (5 for 3,
\* 4, 0) and is missing where an axis is missing
C6_MagnitudeWhenAxesPresent ==
  phase = "ready" =>
    /\ "acc_mag" \in data.cols <=> ACC_NAMES \subseteq data.cols
    /\ "acc_mag" \in data.cols =>
         \A t \in Index(data) :
           LET m == data.rows[t]["acc_mag"]
           IN /\ NaN \in Range(Axes(t)) => m = NaN
              /\ NaN \notin Range(Axes(t)) =>
                   /\ m # NaN
                   /\ m[1] * m[1] <= SumOfSquares(Axes(t)) * AccScale * AccScale
                   /\ SumOfSquares(Axes(t)) * AccScale * AccScale < (m[1] + 1) * (m[1] + 1)
              /\ Axes(t) = <<Some(3), Some(4), Some(0)>> => m = Some(5 * AccScale)

\* C6 witness: a table with a row of 3, 4, 0 and magnitude 5, and a row
\* without two of the axes and without a magnitude
C6_Witness ==
  /\ phase = "ready"
  /\ "acc_mag" \in data.cols
  /\ \E t \in Index(data) :
       Axes(t) = <<Some(3), Some(4), Some(0)>> /\ data.rows[t]["acc_mag"] = Some(5 * AccScale)
  /\ \E t \in Index(data) :
       Axes(t) = <<NaN, NaN, Some(2)>> /\ data.rows[t]["acc_mag"] = NaN

---------------------------------------------------------------------------
(* Properties of timeshift *)

\* a table whose index times are those of frame plus d ticks, cell for cell
ShiftedFrame(frame, d) ==
  [cols |-> frame.cols,
   rows |-> [t \in {u + d * SubSecond : u \in Index(frame)} |->
               frame.rows[t - d * SubSecond]]]

\* after holds the rows of before, each as often, with d added to its time
MovedBy(before, after, d) ==
  /\ after.present = before.present
  /\ BagCardinality(after.rows) = BagCardinality(before.rows)
  /\ \A r \in BagToSet(before.rows) :
       /\ BagIn([r EXCEPT !.time = r.time + d], after.rows)
       /\ after.rows[[r EXCEPT !.time = r.time + d]] = before.rows[r]

HasRows(table) == table.present /\ RowTimes(table) # {}

C5_TimeshiftToAnchor ==
  [][\A anchor \in Ticks :
       TimeshiftAnchor(anchor) =>
         /\ \A i \in 1 .. Len(RawDataframes) :
              IF HasRows(RawDataframes[i])
              THEN /\ Min(RowTimes(RawDataframes'[i])) = anchor
                   /\ \E d \in -MaxTick .. MaxTick :
                        MovedBy(RawDataframes[i], RawDataframes'[i], d)
              ELSE RawDataframes'[i] = RawDataframes[i]
         /\ error' = "none"
         /\ data' = Join(signals', features', sensors', selected).frame
         /\ Index(data') = {t + (anchor - Min(RowTimes(signals))) * SubSecond :
                              t \in Index(SignalFrame)}
                           \cup {t + (anchor - Min(RowTimes(features))) * SubSecond :
                                   t \in Index(FeatureFrame)}
                           \cup {t + (anchor - Min(RowTimes(sensors))) * SubSecond :
                                   t \in Index(SensorFrame)}]_vars

\* C5 witness: two tables that started at different times in the files start
\* at one time that is no whole second
C5_Witness ==
  /\ phase = "ready"
  /\ HasRows(features) /\ HasRows(sensors) /\ HasRows(aggregates)
  /\ Min(RowTimes(ReadFile(files.features))) # Min(RowTimes(ReadFile(files.sensor_data)))
  /\ Min(RowTimes(features)) = Min(RowTimes(sensors))
  /\ Min(RowTimes(aggregates)) = Min(RowTimes(sensors))
  /\ Min(RowTimes(sensors)) % Resolution # 0
  /\ Cardinality(RowTimes(aggregates)) = 2
  /\ Index(data) # {}

====
